---- MODULE Spec2Model ----
(***************************************************************************)
(* Streaming relay of LightyOwO/J-Project: the provider registry, the Mock *)
(* and HTTP providers (package ai) and the /ws/ai relay loop (package      *)
(* main).  Texts are sequences of one-character strings, so that trimming, *)
(* word splitting, joining and prefix tests are computed, not assumed.     *)
(***************************************************************************)
EXTENDS Integers, Sequences, FiniteSets, TLC

(* ------------------------------ bounds -------------------------------- *)
\* prompts read on one connection
MaxCycles == 2
\* words in a prompt sent by the client
MaxWords == 7
\* Register calls in progress at the same time
MaxWriters == 2
\* newline-terminated records in an upstream response body
MaxRecords == 2

(* ------------------------- program constants -------------------------- *)
chunkSize == 6
CannedLimitLow == chunkSize - 1
CannedLimit == 6
SnippetLimit == 4096
StatusLo == 200
StatusHi == 300

(* ------------------------------ texts --------------------------------- *)
EndMarker == <<"_", "_", "e", "n", "d", "_", "_">>
ErrorPrefix == <<"_", "_", "e", "r", "r", "o", "r", "_", "_", ":", " ">>
ErrEmptyPrompt == <<"e", "m", "p", "t", "y", " ", "p", "r", "o", "m", "p", "t">>
ErrCanceled == <<"c", "o", "n", "t", "e", "x", "t", " ", "c", "a", "n", "c", "e", "l", "e", "d">>
ErrEndpointEmpty == <<"h", "t", "t", "p", " ", "p", "r", "o", "v", "i", "d", "e", "r", ":", " ", "e", "n", "d", "p", "o", "i", "n", "t", " ", "i", "s", " ", "e", "m", "p", "t", "y">>
ErrBadStatusPrefix == <<"h", "t", "t", "p", " ", "p", "r", "o", "v", "i", "d", "e", "r", ":", " ", "b", "a", "d", " ", "s", "t", "a", "t", "u", "s", " ">>
ErrBodyInfix == <<" ", "b", "o", "d", "y", ":", " ">>
Canned1 == <<"H", "e", "l", "l", "o", ",">>
Canned2 == <<"t", "h", "i", "s", " ", "i", "s", " ", "a", " ", "m", "o", "c", "k", " ", "A", "I", " ", "r", "e", "p", "l", "y", ".">>
Canned3 == <<"R", "e", "p", "l", "a", "c", "e", " ", "w", "i", "t", "h", " ", "a", " ", "r", "e", "a", "l", " ", "p", "r", "o", "v", "i", "d", "e", "r", ".">>
CannedChunks == <<Canned1, Canned2, Canned3>>
DefaultOllamaEndpoint == <<"h", "t", "t", "p", ":", "/", "/", "l", "o", "c", "a", "l", "h", "o", "s", "t", ":", "1", "1", "4", "3", "4", "/", "a", "p", "i", "/", "g", "e", "n", "e", "r", "a", "t", "e">>
NeedleOllama == <<"o", "l", "l", "a", "m", "a">>
Needle11434 == <<"1", "1", "4", "3", "4">>
JsonOpen == <<"{", "\"", "r", "e", "s", "p", "o", "n", "s", "e", "\"", ":", "\"">>
JsonClose == <<"\"", "}">>

\* error texts of the transport, which the repository does not choose
ErrTransport == <<"d", "i", "a", "l", " ", "e", "r", "r", "o", "r">>
ErrRead == <<"r", "e", "a", "d", " ", "e", "r", "r", "o", "r">>
Status200 == <<"2", "0", "0", " ", "O", "K">>
Status500 == <<"5", "0", "0", " ", "I", "n", "t", "e", "r", "n", "a", "l">>

(* --------------------------- text functions --------------------------- *)
MinOf(S) == CHOOSE m \in S : \A n \in S : m <= n
MaxOf(S) == CHOOSE m \in S : \A n \in S : m >= n

\* unicode.IsSpace on the characters the model uses
IsSpace(c) == c \in {" ", "\t", "\n", "\r"}

NonSpaceIdx(s) == {k \in 1..Len(s) : ~IsSpace(s[k])}

\* strings.TrimSpace
TrimSpaceNone(s) == s
TrimSpace(s) ==
  IF NonSpaceIdx(s) = {} THEN <<>>
  ELSE SubSeq(s, MinOf(NonSpaceIdx(s)), MaxOf(NonSpaceIdx(s)))

\* strings.Fields
RECURSIVE Fields(_)
Fields(s) ==
  IF NonSpaceIdx(s) = {} THEN <<>>
  ELSE LET b == MinOf(NonSpaceIdx(s))
           sp == {k \in b..Len(s) : IsSpace(s[k])}
           e == IF sp = {} THEN Len(s) + 1 ELSE MinOf(sp)
       IN <<SubSeq(s, b, e - 1)>> \o Fields(SubSeq(s, e, Len(s)))

\* strings.Join
RECURSIVE Join(_, _)
Join(ws, sep) ==
  IF Len(ws) = 0 THEN <<>>
  ELSE IF Len(ws) = 1 THEN ws[1]
  ELSE ws[1] \o sep \o Join(Tail(ws), sep)

\* strings.HasPrefix
HasPrefix(s, p) == Len(s) >= Len(p) /\ SubSeq(s, 1, Len(p)) = p

\* strings.Contains
Contains(s, sub) ==
  \E k \in 0..(Len(s) - Len(sub)) : SubSeq(s, k + 1, k + Len(sub)) = sub

UpperLetters == <<"A","B","C","D","E","F","G","H","I","J","K","L","M","N","O","P","Q","R","S","T","U","V","W","X","Y","Z">>
LowerLetters == <<"a","b","c","d","e","f","g","h","i","j","k","l","m","n","o","p","q","r","s","t","u","v","w","x","y","z">>

\* strings.ToLower
ToLower(s) ==
  [k \in 1..Len(s) |->
     IF \E u \in 1..26 : UpperLetters[u] = s[k]
     THEN LowerLetters[CHOOSE u \in 1..26 : UpperLetters[u] = s[k]]
     ELSE s[k]]

\* the first n elements: io.LimitReader followed by io.ReadAll
TakeAll(s, n) == s
Take(s, n) == SubSeq(s, 1, IF Len(s) < n THEN Len(s) ELSE n)

(* ------------------------------ errors -------------------------------- *)
Nil == [isNil |-> TRUE, msg |-> <<>>]
Error(m) == [isNil |-> FALSE, msg |-> m]

(* ----------------------------- providers ------------------------------ *)
MockProvider == [kind |-> "mock", Endpoint |-> <<>>, StreamEnabled |-> FALSE]

NewHTTPProvider(endpoint, streamEnabled) ==
  [kind |-> "http", Endpoint |-> endpoint, StreamEnabled |-> streamEnabled]

\* providers[name] of Stream, with the fallback for a name that is not found
Dispatch(regs, name) ==
  LET providerName == IF name = "" THEN "mock" ELSE name
  IN IF providerName \in DOMAIN regs THEN regs[providerName] ELSE MockProvider

\* providers[name] = p
RegisterEntry(regs, name, p) ==
  [n \in DOMAIN regs \cup {name} |-> IF n = name THEN p ELSE regs[n]]

\* the endpoint is Ollama-compatible by its URL
isOllamaNever(h) == FALSE
isOllama(h) ==
  \/ Contains(ToLower(h.Endpoint), NeedleOllama)
  \/ Contains(ToLower(h.Endpoint), Needle11434)

HasSuffix(s, p) == Len(s) >= Len(p) /\ SubSeq(s, Len(s) - Len(p) + 1, Len(s)) = p

\* json.Unmarshal of one record into struct{Response string}, on the records
\* of the model: {"response":"<text without quote or backslash>"} parses to
\* its text, any other record of the model is not a JSON value
Unmarshal(line) ==
  LET n == Len(line)
      inner == SubSeq(line, Len(JsonOpen) + 1, n - Len(JsonClose))
  IN IF /\ n >= Len(JsonOpen) + Len(JsonClose)
        /\ HasPrefix(line, JsonOpen)
        /\ HasSuffix(line, JsonClose)
        /\ \A k \in 1..Len(inner) : inner[k] \notin {"\"", "\\"}
     THEN [ok |-> TRUE, Response |-> inner]
     ELSE [ok |-> FALSE, Response |-> <<>>]

\* bufio.Reader.ReadString('\n'): the bytes up to and including the first
\* newline, or all that is left together with io.EOF
ReadString(r) ==
  LET nl == {k \in 1..Len(r) : r[k] = "\n"}
  IN IF nl = {}
     THEN [line |-> r, eof |-> TRUE, rest |-> <<>>]
     ELSE [line |-> SubSeq(r, 1, MinOf(nl)), eof |-> FALSE,
           rest |-> SubSeq(r, MinOf(nl) + 1, Len(r))]

(* ------------------------------ inputs -------------------------------- *)
WordA == <<"a">>
AllA(n) == [k \in 1..n |-> WordA]

\* word lists of the client's prompts: plain words, the last of them possibly
\* the text of the end marker
WordLists ==
  {AllA(n) : n \in 0..MaxWords}
    \cup {[AllA(n) EXCEPT ![n] = EndMarker] : n \in 1..MaxWords}

\* the prompts a client sends: the words separated by one space, and the
\* shortest and the longest of them also with other white space around and
\* between the words
Prompts ==
  {Join(ws, <<" ">>) : ws \in WordLists}
    \cup {<<" ">> \o Join(AllA(n), <<"\n", " ">>) \o <<"\t">> : n \in {0, 1, 2, MaxWords}}

\* c.Query("provider")
Names == {"", "mock", "ollama", "nope"}

\* OLLAMA_ENDPOINT: unset, a URL that is not Ollama's by its pattern, blank
PlainEndpoint == <<"h", "t", "t", "p", ":", "/", "/", "h", "/", "g", "e", "n">>
EnvEndpoints == {<<>>, PlainEndpoint, <<" ">>}

Records == {WordA, EndMarker, <<>>, JsonOpen \o <<"b">> \o JsonClose}

RECURSIVE Terminated(_)
Terminated(n) ==
  IF n = 0 THEN {<<>>}
  ELSE Terminated(n - 1)
         \cup {b \o r \o <<"\n">> : b \in Terminated(n - 1), r \in Records}

\* {"response":"<text>"}
JsonRecord(text) == JsonOpen \o text \o JsonClose

\* three JSON records with a blank line before the last of them
ClaimBody ==
  JsonRecord(<<"a">>) \o <<"\n">> \o JsonRecord(<<"b">>) \o <<"\n">>
    \o <<"\n">> \o JsonRecord(<<"c">>) \o <<"\n">>

\* response bodies: records ended by a newline, then possibly a last record
\* that is not
Bodies ==
  {b \o t : b \in Terminated(MaxRecords), t \in {<<>>, WordA}}
    \cup {ClaimBody}

\* an error page longer than the snippet an error message keeps of it
LongBody == [k \in 1..SnippetLimit + 1 |-> "x"]

Responses ==
  {[code |-> 200, status |-> Status200, body |-> b] : b \in Bodies}
    \cup {[code |-> 500, status |-> Status500, body |-> b] :
            b \in {<<>>, WordA, LongBody}}

(* ------------------------------- state -------------------------------- *)
VARIABLES
  providers,   \* the registry: name -> provider
  registered,  \* history: the last provider passed to Register, by name
  pc,          \* position of the /ws/ai handler
  provider,    \* the session's provider name
  prompt,      \* the prompt of the current cycle
  created,     \* number of scopes created so far
  ctx,         \* the scope of the current cycle
  cancelled,   \* the scopes whose cancel() has run
  prov,        \* the provider Stream dispatched to
  words,       \* MockProvider.Stream: words
  i,           \* MockProvider.Stream: loop variable
  reader,      \* HTTPProvider.Stream: what is left of resp.Body
  err,         \* the outcome of Stream
  wire,        \* history: the writes to conn in the current cycle
  emitted,     \* history: the chunks passed to handler in the current cycle
  spoken,      \* history: the chunks passed to tts.Speak in the current cycle
  sent,        \* history: client.Do was called in the current invocation
  resp,        \* history: the response client.Do returned
  writers,     \* the Register calls that are writing the providers map
  fault        \* the runtime stopped the process on a map access

vars == <<providers, registered, pc, provider, prompt, created, ctx, cancelled,
          prov, words, i, reader, err, wire, emitted, spoken, sent, resp,
          writers, fault>>

concVars == <<writers, fault>>
regVars == <<providers, registered, concVars>>
mockVars == <<words, i>>
httpVars == <<sent, resp>>

\* no response yet
NoResp == [code |-> 0, status |-> <<>>, body |-> <<>>]
logVars == <<wire, emitted, spoken>>

\* package ai's init()
initProviders(env) ==
  LET ollamaEndpoint == IF env = <<>> THEN DefaultOllamaEndpoint ELSE env
  IN RegisterEntry(RegisterEntry(<<>>, "mock", MockProvider),
                   "ollama", NewHTTPProvider(ollamaEndpoint, TRUE))

Init ==
  /\ \E env \in EnvEndpoints : providers = initProviders(env)
  /\ registered = providers
  /\ pc = "idle"
  /\ provider = ""
  /\ prompt = <<>>
  /\ created = 0
  /\ ctx = 0
  /\ cancelled = {}
  /\ prov = MockProvider
  /\ words = <<>>
  /\ i = 0
  /\ reader = <<>>
  /\ err = Nil
  /\ wire = <<>>
  /\ emitted = <<>>
  /\ spoken = <<>>
  /\ sent = FALSE
  /\ resp = NoResp
  /\ writers = {}
  /\ fault = FALSE

(* ---------------------------- relay loop ------------------------------ *)
\* upgrader.Upgrade succeeds; the provider name is read from the query
Upgrade(name) ==
  /\ pc = "idle"
  /\ provider' = name
  /\ pc' = "read"
  /\ UNCHANGED <<regVars, prompt, created, ctx, cancelled, prov, mockVars, httpVars,
                 reader, err, logVars>>

\* upgrader.Upgrade fails: the handler returns
UpgradeError ==
  /\ pc = "idle"
  /\ pc' = "closed"
  /\ UNCHANGED <<regVars, provider, prompt, created, ctx, cancelled, prov,
                 mockVars, httpVars, reader, err, logVars>>

\* context.WithCancel(context.Background()): a scope no cycle has used
WithCancelShared(n) == 1
WithCancel(n) == n + 1

\* conn.ReadMessage returns a message: the prompt and the scope of a new cycle
ReadMessage(msg) ==
  /\ pc = "read"
  /\ created < MaxCycles
  /\ prompt' = msg
  /\ created' = created + 1
  /\ ctx' = WithCancel(created)
  /\ wire' = <<>>
  /\ emitted' = <<>>
  /\ spoken' = <<>>
  /\ words' = <<>>
  /\ i' = 0
  /\ reader' = <<>>
  /\ err' = Nil
  /\ sent' = FALSE
  /\ resp' = NoResp
  /\ pc' = "call"
  /\ UNCHANGED <<regVars, provider, cancelled, prov>>

\* conn.ReadMessage fails: the handler returns
ReadError ==
  /\ pc = "read"
  /\ pc' = "closed"
  /\ UNCHANGED <<regVars, provider, prompt, created, ctx, cancelled, prov,
                 mockVars, httpVars, reader, err, logVars>>

\* the handler closure: what it writes to conn
handlerWriteTwice(w, chunk, ok) ==
  Append(Append(w, [kind |-> "chunk", data |-> chunk, ok |-> ok]),
         [kind |-> "chunk", data |-> chunk, ok |-> ok])
handlerWrite(w, chunk, ok) ==
  Append(w, [kind |-> "chunk", data |-> chunk, ok |-> ok])

\* the handler closure: cancel() on a failed write
handlerNoCancel(done, c, ok) == done
handlerCancel(done, c, ok) == IF ok THEN done ELSE done \cup {c}

\* the handler closure: tts.Speak after a write that succeeded
handlerSpeak(t, chunk, ok) == IF ok THEN Append(t, chunk) ELSE t

\* one call of the handler closure by a provider; ok is the result of the write
handler(chunk, ok) ==
  /\ emitted' = Append(emitted, chunk)
  /\ wire' = handlerWrite(wire, chunk, ok)
  /\ cancelled' = handlerCancel(cancelled, ctx, ok)
  /\ spoken' = handlerSpeak(spoken, chunk, ok)

\* a provider's Stream returns e to the relay loop
Return(e) ==
  /\ err' = e
  /\ pc' = "returned"

\* ctx.Done() is ready
DoneNever(c) == FALSE
Done(c) == c \in cancelled

\* MockProvider.Stream up to its first loop
MockStart ==
  IF TrimSpace(prompt) = <<>>
  THEN /\ Return(Error(ErrEmptyPrompt))
       /\ UNCHANGED <<mockVars, reader, cancelled, logVars, httpVars>>
  ELSE /\ words' = Fields(prompt)
       /\ i' = 0
       /\ pc' = IF Len(Fields(prompt)) < CannedLimit THEN "canned" ELSE "window"
       /\ UNCHANGED <<reader, err, cancelled, logVars, httpVars>>

\* the error of a response whose status is not 2xx
BadStatus(r) ==
  Error(ErrBadStatusPrefix \o r.status \o ErrBodyInfix
          \o Take(r.body, SnippetLimit))

\* HTTPProvider.Stream up to its read loop: the endpoint is checked, the
\* request sent (client.Do fails or returns a response), the status checked,
\* and in single-response mode the whole body read and passed to the handler
HTTPStart(h) ==
  IF TrimSpace(h.Endpoint) = <<>>
  THEN /\ Return(Error(ErrEndpointEmpty))
       /\ UNCHANGED <<mockVars, reader, cancelled, logVars, httpVars>>
  ELSE IF Done(ctx)
  THEN /\ Return(Error(ErrCanceled))
       /\ UNCHANGED <<mockVars, reader, cancelled, logVars, httpVars>>
  ELSE \/ /\ Return(Error(ErrTransport))
          /\ sent' = TRUE
          /\ UNCHANGED <<mockVars, reader, cancelled, logVars, resp>>
       \/ \E r \in Responses :
            /\ sent' = TRUE
            /\ resp' = r
            /\ IF r.code < StatusLo \/ r.code >= StatusHi
               THEN /\ Return(BadStatus(r))
                    /\ UNCHANGED <<mockVars, reader, cancelled, logVars>>
               ELSE IF ~h.StreamEnabled
               THEN \/ /\ Return(Error(ErrRead))
                       /\ UNCHANGED <<mockVars, reader, cancelled, logVars>>
                    \/ \E ok \in BOOLEAN :
                         /\ handler(r.body, ok)
                         /\ Return(Nil)
                         /\ UNCHANGED <<mockVars, reader>>
               ELSE /\ reader' = r.body
                    /\ pc' = "http"
                    /\ UNCHANGED <<mockVars, err, cancelled, logVars>>

\* ai.Stream is called: the provider is looked up and its Stream starts
Stream ==
  /\ pc = "call"
  /\ prov' = Dispatch(providers, provider)
  /\ IF Dispatch(providers, provider).kind = "mock"
     THEN MockStart
     ELSE HTTPStart(Dispatch(providers, provider))
  /\ UNCHANGED <<regVars, provider, prompt, created, ctx>>

\* MockProvider.Stream: one iteration of the loop over the canned reply
CannedStep ==
  /\ pc = "canned"
  /\ IF i >= Len(CannedChunks)
     THEN /\ Return(Nil)
          /\ UNCHANGED <<i, cancelled, logVars>>
     ELSE IF Done(ctx)
     THEN /\ Return(Error(ErrCanceled))
          /\ UNCHANGED <<i, cancelled, logVars>>
     ELSE /\ \E ok \in BOOLEAN : handler(CannedChunks[i + 1], ok)
          /\ i' = i + 1
          /\ UNCHANGED <<pc, err>>
  /\ UNCHANGED <<regVars, provider, prompt, created, ctx, prov, words, reader,
                 httpVars>>

\* the end of the window that starts at word i, of n words
windowEndShort(k, n) == IF k + chunkSize > n THEN n - 1 ELSE k + chunkSize
windowEnd(k, n) == IF k + chunkSize > n THEN n ELSE k + chunkSize

\* MockProvider.Stream: one iteration of the loop over the windows of words
WindowStep ==
  /\ pc = "window"
  /\ IF i >= Len(words)
     THEN /\ Return(Nil)
          /\ UNCHANGED <<i, cancelled, logVars>>
     ELSE IF Done(ctx)
     THEN /\ Return(Error(ErrCanceled))
          /\ UNCHANGED <<i, cancelled, logVars>>
     ELSE LET end == windowEnd(i, Len(words))
          IN /\ \E ok \in BOOLEAN :
                  handler(Join(SubSeq(words, i + 1, end), <<" ">>), ok)
             /\ i' = i + chunkSize
             /\ UNCHANGED <<pc, err>>
  /\ UNCHANGED <<regVars, provider, prompt, created, ctx, prov, words, reader,
                 httpVars>>

\* HTTPProvider.Stream: one iteration of the read loop of incremental mode:
\* the scope is checked, then a record is read (the read fails, or meets the
\* end of the body, or returns a record) and passed on
HTTPStep ==
  /\ pc = "http"
  /\ IF Done(ctx)
     THEN /\ Return(Error(ErrCanceled))
          /\ UNCHANGED <<reader, cancelled, logVars>>
     ELSE \/ /\ Return(Error(ErrRead))
             /\ UNCHANGED <<reader, cancelled, logVars>>
          \/ IF ReadString(reader).eof
             THEN /\ Return(Nil)
                  /\ reader' = <<>>
                  /\ UNCHANGED <<cancelled, logVars>>
             ELSE LET line == TrimSpace(ReadString(reader).line)
                  IN /\ reader' = ReadString(reader).rest
                     /\ UNCHANGED <<pc, err>>
                     /\ IF line = <<>>
                        THEN UNCHANGED <<cancelled, logVars>>
                        ELSE IF isOllama(prov)
                        THEN IF Unmarshal(line).ok /\ Unmarshal(line).Response # <<>>
                             THEN \E ok \in BOOLEAN : handler(Unmarshal(line).Response, ok)
                             ELSE UNCHANGED <<cancelled, logVars>>
                        ELSE \E ok \in BOOLEAN : handler(line, ok)
  /\ UNCHANGED <<regVars, provider, prompt, created, ctx, prov, mockVars,
                 httpVars>>

\* where the loop goes after the error branch: continue
afterErrorReturn == "closed"
afterError == "read"

\* what the error branch writes to conn
errorMessage(e) == ErrorPrefix \o e.msg

\* ai.Stream returned an error: the error sentinel is written, its result
\* ignored, the scope cancelled and the loop continues
StreamFailed(ok) ==
  /\ pc = "returned"
  /\ ~err.isNil
  /\ wire' = Append(wire, [kind |-> "error", data |-> errorMessage(err), ok |-> ok])
  /\ cancelled' = cancelled \cup {ctx}
  /\ pc' = afterError
  /\ UNCHANGED <<regVars, provider, prompt, created, ctx, prov, mockVars, httpVars,
                 reader, err, emitted, spoken>>

\* ai.Stream returned nil: the end marker is written; a failed write ends the
\* handler, a successful one is followed by cancel() and the next cycle
StreamEnded(ok) ==
  /\ pc = "returned"
  /\ err.isNil
  /\ wire' = Append(wire, [kind |-> "end", data |-> EndMarker, ok |-> ok])
  /\ IF ok
     THEN /\ cancelled' = cancelled \cup {ctx}
          /\ pc' = "read"
     ELSE /\ pc' = "closed"
          /\ UNCHANGED cancelled
  /\ UNCHANGED <<regVars, provider, prompt, created, ctx, prov, mockVars, httpVars,
                 reader, err, emitted, spoken>>

Next ==
  \/ \E name \in Names : Upgrade(name)
  \/ UpgradeError
  \/ \E msg \in Prompts : ReadMessage(msg)
  \/ ReadError
  \/ Stream
  \/ CannedStep
  \/ WindowStep
  \/ HTTPStep
  \/ \E ok \in BOOLEAN : StreamFailed(ok)
  \/ \E ok \in BOOLEAN : StreamEnded(ok)

Spec == Init /\ [][Next]_vars

TypeOK ==
  /\ pc \in {"idle", "read", "call", "canned", "window", "http", "returned", "closed"}
  /\ created \in 0..MaxCycles
  /\ ctx \in 0..MaxCycles
  /\ cancelled \subseteq 1..MaxCycles

(* ----------------------------- registry -------------------------------- *)
\* names and providers passed to Register
RegNames == {"", "mock", "ollama", "x"}
RegProviders ==
  {MockProvider, NewHTTPProvider(PlainEndpoint, FALSE),
   NewHTTPProvider(DefaultOllamaEndpoint, TRUE)}

\* Register(name, p)
Register(name, p) ==
  /\ providers' = RegisterEntry(providers, name, p)
  /\ registered' = [n \in DOMAIN registered \cup {name} |->
                      IF n = name THEN p ELSE registered[n]]
  /\ UNCHANGED <<pc, provider, prompt, created, ctx, cancelled, prov, mockVars,
                 reader, err, logVars, httpVars, concVars>>

\* ai.Stream(ctx, name, ...) up to the call of the provider it found
Resolve(name) ==
  /\ provider' = name
  /\ prov' = Dispatch(providers, name)
  /\ UNCHANGED <<regVars, pc, prompt, created, ctx, cancelled, mockVars,
                 reader, err, logVars, httpVars>>

NextRegistry ==
  \/ \E name \in RegNames, p \in RegProviders : Register(name, p)
  \/ \E name \in RegNames \cup Names : Resolve(name)

SpecRegistry == Init /\ [][NextRegistry]_vars

(* ------------------------- properties: relay --------------------------- *)
IsChunk(e) == e.kind = "chunk"
ChunkIdx == {k \in 1..Len(wire) : wire[k].kind = "chunk"}
ErrorIdx == {k \in 1..Len(wire) : wire[k].kind = "error"}
EndIdx == {k \in 1..Len(wire) : wire[k].kind = "end"}
FailedIdx == {k \in 1..Len(wire) : ~wire[k].ok}

\* the data of the chunk messages on the wire, in order
ChunkData ==
  LET cs == SelectSeq(wire, IsChunk) IN [k \in 1..Len(cs) |-> cs[k].data]

\* a cycle has been completed and the loop is back at conn.ReadMessage
CycleDone == pc = "read" /\ created > 0

\* C1: when a cycle is over and the session still open, the end marker has
\* been written exactly once in that cycle, as its last message, after every
\* chunk message and after the error sentinel if there is one.
C1_EndMarkerOncePerCycle ==
  CycleDone =>
    /\ Cardinality(EndIdx) = 1
    /\ Len(wire) \in EndIdx
    /\ \A k \in ChunkIdx \cup ErrorIdx : k < Len(wire)

\* C2: the chunk messages written in a cycle are, in order and one for one,
\* the chunks the provider passed to the handler; only the last of them can
\* be a failed write; every chunk message comes before the cycle's sentinels;
\* and a chunk is written only by a step of the invocation of the current
\* cycle, never by the step that reads a prompt or by one after the return.
C2_ChunksRelayedInOrder ==
  /\ [](/\ ChunkData = emitted
        /\ \A k \in ChunkIdx \cap FailedIdx : \A j \in ChunkIdx : j <= k
        /\ \A k \in ChunkIdx : \A j \in ErrorIdx \cup EndIdx : k < j)
  /\ [][ChunkIdx' # ChunkIdx /\ ChunkIdx' # {} =>
          /\ pc \in {"call", "canned", "window", "http"}
          /\ created' = created /\ ctx' = ctx
          /\ SubSeq(wire', 1, Len(wire)) = wire]_vars

\* C2 witness: a windowed Mock reply of two chunks went out whole and in order.
C2_Witness ==
  /\ pc = "returned" /\ prov.kind = "mock"
  /\ Len(emitted) = 2 /\ emitted[1] # emitted[2]
  /\ ChunkData = emitted /\ FailedIdx = {}

\* C3: with the Mock provider and with the HTTP provider in incremental
\* mode, a failed chunk write leaves the scope cancelled and is the last call
\* of the handler in its cycle.
C3_NoChunkAfterFailedWrite ==
  (prov.kind = "mock" \/ prov.StreamEnabled) =>
    \A k \in ChunkIdx \cap FailedIdx :
      /\ Done(ctx)
      /\ \A j \in ChunkIdx : j <= k
      /\ Len(emitted) = Cardinality(ChunkIdx)

\* C3 witness: the first canned chunk failed to be written and the Mock
\* returned with two chunks left.
C3_Witness ==
  /\ pc = "returned" /\ prov.kind = "mock"
  /\ Len(emitted) = 1 /\ FailedIdx = {1} /\ Len(words) < CannedLimit

\* C4: a provider that returns while its scope is cancelled returns the
\* scope's cancellation error.
C4_CancelledReturnsCancellation ==
  (pc = "returned" /\ Done(ctx)) => err = Error(ErrCanceled)

\* C5: after a failed write to the client the loop is not back at reading
\* the next prompt.
C5_FailedWriteEndsSession ==
  FailedIdx # {} => pc # "read"

\* C6: a cycle whose Stream returned an error ends with exactly one error
\* sentinel, the error prefix followed by the error's text, and the loop goes
\* from the return of the error to reading the next prompt.
C6_ProviderErrorNotFatal ==
  /\ []((CycleDone /\ ~err.isNil) =>
          /\ Cardinality(ErrorIdx) = 1
          /\ Len(wire) \in ErrorIdx
          /\ wire[Len(wire)].data = ErrorPrefix \o err.msg)
  /\ []((pc = "returned" /\ prov.kind = "mock" /\ TrimSpace(prompt) = <<>>) =>
          err = Error(ErrEmptyPrompt))
  /\ [][(pc = "returned" /\ ~err.isNil) => pc' = "read"]_vars

\* C6 witness: the second cycle of a session failed with the Mock's empty
\* prompt error, the sentinel was written and the loop is reading again.
C6_Witness ==
  /\ pc = "read" /\ created >= 2
  /\ err = Error(ErrEmptyPrompt)
  /\ wire = <<[kind |-> "error", data |-> ErrorPrefix \o ErrEmptyPrompt, ok |-> TRUE]>>

\* C7: no chunk message is the end marker or starts with the error prefix.
C7_ChunksAreNotSentinels ==
  \A k \in ChunkIdx :
    /\ wire[k].data # EndMarker
    /\ ~HasPrefix(wire[k].data, ErrorPrefix)

\* C8: when ai.Stream is called the scope of the cycle is not cancelled,
\* whatever was cancelled in the cycles before.
C8_FreshScopePerCycle ==
  pc = "call" => (~Done(ctx) /\ ctx = created)

\* C8 witness: Stream is about to be called in a later cycle while the scope
\* of the cycle before is cancelled.
C8_Witness ==
  /\ pc = "call" /\ created >= 2
  /\ (created - 1) \in cancelled

(* ------------------------ properties: registry ------------------------- *)
\* C9: the empty name and every name never registered resolve to the Mock
\* provider, and every other name to the provider last registered for it.
C9_ResolutionAlwaysSucceeds ==
  \A n \in RegNames \cup Names :
    /\ (n = "" \/ n \notin DOMAIN registered) =>
         Dispatch(providers, n) = MockProvider
    /\ (n # "" /\ n \in DOMAIN registered) =>
         Dispatch(providers, n) = registered[n]

\* C10: the registry holds the Mock provider under "mock" and the empty name
\* resolves to it, whatever has been registered.
C10_MockEntryKept ==
  /\ "mock" \in DOMAIN providers
  /\ providers["mock"] = MockProvider
  /\ Dispatch(providers, "") = MockProvider

(* ---------------------- one invocation of a provider ------------------- *)
\* the providers ai.Stream can be made to call
ProviderConfigs ==
  {MockProvider}
    \cup {NewHTTPProvider(e, m) :
            e \in {DefaultOllamaEndpoint, PlainEndpoint, <<" ">>, <<>>},
            m \in BOOLEAN}

\* ai.Stream is about to be called with a provider registered as "x", a
\* prompt, and a scope that its caller may already have cancelled
InitProvider ==
  /\ \E h \in ProviderConfigs :
       providers = RegisterEntry(initProviders(<<>>), "x", h)
  /\ registered = providers
  /\ pc = "call"
  /\ provider = "x"
  /\ prompt \in Prompts
  /\ created = 1
  /\ ctx = 1
  /\ cancelled \in {{}, {1}}
  /\ prov = MockProvider
  /\ words = <<>>
  /\ i = 0
  /\ reader = <<>>
  /\ err = Nil
  /\ wire = <<>>
  /\ emitted = <<>>
  /\ spoken = <<>>
  /\ sent = FALSE
  /\ resp = NoResp
  /\ writers = {}
  /\ fault = FALSE

NextProvider ==
  \/ Stream
  \/ CannedStep
  \/ WindowStep
  \/ HTTPStep

SpecProvider == InitProvider /\ [][NextProvider]_vars

(* ---------------------- properties: Mock provider ---------------------- *)
\* the words of a sequence of chunks, in order
RECURSIVE WordsOf(_)
WordsOf(chunks) ==
  IF chunks = <<>> THEN <<>>
  ELSE Fields(chunks[1]) \o WordsOf(Tail(chunks))

\* the Mock provider has returned
MockReturned == pc = "returned" /\ prov.kind = "mock"

\* C12: for a prompt of n >= 6 words and a scope that is never cancelled the
\* Mock returns nil after ceil(n/6) chunks; each chunk is the join by one
\* space of at most 6 words, exactly 6 for all but the last, and the words
\* of the chunks in order are the words of the prompt.
C12_MockWindows ==
  (MockReturned /\ Len(Fields(prompt)) >= chunkSize /\ ~Done(ctx)) =>
    /\ err = Nil
    /\ Len(emitted) = (Len(Fields(prompt)) + chunkSize - 1) \div chunkSize
    /\ \A k \in 1..Len(emitted) :
         /\ emitted[k] = Join(Fields(emitted[k]), <<" ">>)
         /\ Len(Fields(emitted[k])) <= chunkSize
         /\ k < Len(emitted) => Len(Fields(emitted[k])) = chunkSize
    /\ WordsOf(emitted) = Fields(prompt)

\* C12 witness: a prompt of more than 6 words, not separated by single
\* spaces, was returned in two chunks.
C12_Witness ==
  /\ MockReturned /\ err = Nil /\ ~Done(ctx)
  /\ Len(emitted) = 2
  /\ prompt # Join(Fields(prompt), <<" ">>)

\* the prompt is empty or white space only
BlankPrompt == \A k \in 1..Len(prompt) : IsSpace(prompt[k])

\* C13: for a prompt of one to five words and a scope that is never
\* cancelled the Mock emits the three canned chunks, in order, whatever the
\* words are, and returns nil.
C13_MockCanned ==
  (MockReturned /\ Len(Fields(prompt)) \in 1..5 /\ ctx \notin cancelled) =>
    /\ emitted = CannedChunks
    /\ err = Nil

\* C13 witness: the canned reply was given to a prompt of five words.
C13_Witness ==
  /\ MockReturned /\ Len(Fields(prompt)) = 5 /\ ctx \notin cancelled
  /\ emitted = CannedChunks /\ err = Nil

\* C14: for an empty or white-space-only prompt the Mock returns the empty
\* prompt error without calling the handler, cancelled scope or not.
C14_MockEmptyPrompt ==
  (MockReturned /\ BlankPrompt) =>
    /\ err = Error(ErrEmptyPrompt)
    /\ emitted = <<>>

\* C14 witness: a prompt of white space only was refused while the scope
\* was cancelled.
C14_Witness ==
  /\ MockReturned /\ BlankPrompt /\ prompt # <<>> /\ ctx \in cancelled
  /\ err = Error(ErrEmptyPrompt) /\ emitted = <<>>

\* C15: when the scope was cancelled before the Mock was called with a
\* prompt that has words (a cancelled scope and no failed write), the handler
\* is never called and the Mock returns the cancellation error.
C15_MockCancelledBefore ==
  (MockReturned /\ ~BlankPrompt /\ ctx \in cancelled /\ FailedIdx = {}) =>
    /\ emitted = <<>>
    /\ err = Error(ErrCanceled)

\* C15 witness: a prompt of six words or more, given with a cancelled scope,
\* came back with the cancellation error and no chunk.
C15_Witness ==
  /\ MockReturned /\ Len(Fields(prompt)) >= 6 /\ ctx \in cancelled
  /\ emitted = <<>> /\ err = Error(ErrCanceled)

(* ------------------ the registry under concurrent calls --------------- *)
\* names and providers of the concurrent Register calls
ConcNames == {"mock", "x"}
ConcProviders == {MockProvider, NewHTTPProvider(PlainEndpoint, FALSE)}

\* Register(name, p) starts its write of the providers map.  The map has no
\* lock: when another write is in progress this is a data race, which the
\* runtime either stops with "concurrent map writes" or lets pass
RegisterBegin(name, p) ==
  /\ ~fault
  /\ Cardinality(writers) < MaxWriters
  /\ [name |-> name, p |-> p] \notin writers
  /\ \/ /\ writers' = writers \cup {[name |-> name, p |-> p]}
        /\ UNCHANGED fault
     \/ /\ writers # {}
        /\ fault' = TRUE
        /\ UNCHANGED writers
  /\ UNCHANGED <<providers, registered, pc, provider, prompt, created, ctx,
                 cancelled, prov, mockVars, reader, err, logVars, httpVars>>

\* the write of a Register call is done
RegisterEnd(name, p) ==
  /\ ~fault
  /\ [name |-> name, p |-> p] \in writers
  /\ providers' = RegisterEntry(providers, name, p)
  /\ registered' = RegisterEntry(registered, name, p)
  /\ writers' = writers \ {[name |-> name, p |-> p]}
  /\ UNCHANGED <<fault, pc, provider, prompt, created, ctx, cancelled, prov,
                 mockVars, reader, err, logVars, httpVars>>

\* ai.Stream(ctx, name, ...) reads the providers map.  With no write in
\* progress it finds what the map holds; during a write the read is a data
\* race: the runtime stops the process with "concurrent map read and map
\* write", or the read sees the map before or after the write
ResolveConc(name) ==
  /\ ~fault
  /\ provider' = name
  /\ \/ /\ prov' \in {Dispatch(providers, name)}
                \cup {Dispatch(RegisterEntry(providers, w.name, w.p), name) :
                        w \in writers}
        /\ UNCHANGED fault
     \/ /\ writers # {}
        /\ fault' = TRUE
        /\ UNCHANGED prov
  /\ UNCHANGED <<providers, registered, writers, pc, prompt, created, ctx,
                 cancelled, mockVars, reader, err, logVars, httpVars>>

NextConc ==
  \/ \E name \in ConcNames, p \in ConcProviders : RegisterBegin(name, p)
  \/ \E name \in ConcNames, p \in ConcProviders : RegisterEnd(name, p)
  \/ \E name \in ConcNames \cup {""} : ResolveConc(name)

SpecConc == Init /\ [][NextConc]_vars

\* C11: with Register calls and resolutions running concurrently the process
\* never faults, every entry of the registry is the provider last registered
\* for its name, and a resolution returns the provider the registry held
\* before or after a write in progress.
C11_RegistrySafeUnderConcurrency ==
  /\ ~fault
  /\ \A n \in DOMAIN providers : providers[n] = registered[n]

(* ---------------------- properties: HTTP provider ---------------------- *)
\* the records of a body: the texts between its newlines, and the text after
\* the last newline if there is any
RECURSIVE RecordsOf(_)
RecordsOf(b) ==
  IF b = <<>> THEN <<>>
  ELSE LET nl == {k \in 1..Len(b) : b[k] = "\n"}
       IN IF nl = {} THEN <<b>>
          ELSE <<SubSeq(b, 1, MinOf(nl) - 1)>>
                 \o RecordsOf(SubSeq(b, MinOf(nl) + 1, Len(b)))

\* what the records owe the handler: nothing for a blank record or for a
\* record of the Ollama format that is not JSON, else one chunk
RECURSIVE Owed(_, _)
Owed(rs, ollama) ==
  IF rs = <<>> THEN <<>>
  ELSE LET r == TrimSpace(rs[1])
       IN (IF r = <<>> THEN <<>>
           ELSE IF ~ollama THEN <<r>>
           ELSE IF Unmarshal(r).ok THEN <<Unmarshal(r).Response>>
           ELSE <<>>)
          \o Owed(Tail(rs), ollama)

\* the HTTP provider has returned from incremental mode on a 2xx response
IncrementalReturned ==
  /\ pc = "returned" /\ prov.kind = "http" /\ prov.StreamEnabled
  /\ sent /\ resp.code >= 200 /\ resp.code < 300

\* C16: when incremental mode has read a 2xx body to its end and returned
\* nil, every non-blank record of the body, the last one also when no newline
\* follows it, has given one chunk, in the order of the body; only records of
\* the Ollama format that are not JSON have been passed over.
C16_NoRecordDropped ==
  (IncrementalReturned /\ err = Nil) =>
    emitted = Owed(RecordsOf(resp.body), isOllama(prov))

\* every record of the body is ended by a newline
NewlineTerminated(b) == b = <<>> \/ b[Len(b)] = "\n"

\* the URL pattern of an Ollama-compatible endpoint
OllamaURL(e) ==
  \/ Contains(ToLower(e), <<"o", "l", "l", "a", "m", "a">>)
  \/ Contains(ToLower(e), <<"1", "1", "4", "3", "4">>)

C17_Outcome ==
  /\ \/ err = Nil
     \/ err = Error(ErrRead)
     \/ err = Error(ErrCanceled) /\ ctx \in cancelled
  /\ err = Nil => emitted = Owed(RecordsOf(resp.body), TRUE)
  /\ (err = Nil /\ resp.body = ClaimBody) => emitted = <<<<"a">>, <<"b">>, <<"c">>>>

HTTPReturned == pc = "returned" /\ prov.kind = "http"

\* the endpoint is empty or white space only
BlankEndpoint == \A k \in 1..Len(prov.Endpoint) : IsSpace(prov.Endpoint[k])

\* a response came back and its status is not 2xx
NonSuccessStatus == sent /\ resp.code # 0 /\ (resp.code < 200 \/ resp.code > 299)

\* the text of a status error up to the snippet
StatusErrorHead == ErrBadStatusPrefix \o resp.status \o ErrBodyInfix

\* C18: an HTTP provider whose endpoint is blank returns the configuration
\* error without sending a request, and one that receives a status outside
\* 200-299 returns an error made of the status and the first bytes of the
\* body, at most 4096 of them; in both cases nothing is emitted, in
\* single-response and in incremental mode
C18_FailsBeforeStreaming ==
  /\ (HTTPReturned /\ BlankEndpoint) =>
       /\ err = Error(ErrEndpointEmpty)
       /\ ~sent
       /\ emitted = <<>>
  /\ (HTTPReturned /\ NonSuccessStatus) =>
       LET n == Len(err.msg) - Len(StatusErrorHead)
       IN /\ ~err.isNil
          /\ n >= 0 /\ n <= 4096 /\ n <= Len(resp.body)
          /\ n = 4096 \/ n = Len(resp.body)
          /\ err.msg = StatusErrorHead \o SubSeq(resp.body, 1, n)
          /\ emitted = <<>>

C18_Witness ==
  /\ HTTPReturned
  /\ NonSuccessStatus
  /\ prov.StreamEnabled
  /\ Len(resp.body) > 4096
  /\ Len(err.msg) = Len(StatusErrorHead) + 4096
  /\ emitted = <<>>

\* C19: every chunk a provider passes to the handler is a non-empty text
\* (Mock canned and windowed, HTTP incremental in both sub-formats, HTTP
\* single-response for every 2xx body), and single-response mode passes the
\* whole body exactly once
C19_ChunksNonEmpty ==
  /\ \A k \in 1..Len(emitted) : emitted[k] # <<>>
  /\ (HTTPReturned /\ ~prov.StreamEnabled /\ err = Nil) => emitted = <<resp.body>>

(* ------------------- properties: release of the scopes ----------------- *)
\* the loop is between two cycles, or the connection handler has returned
CycleLeft == pc \in {"read", "closed"}

\* C20: when a cycle has been left, by its normal end, by the error branch or
\* by the return after a failed write of the end marker, every scope the loop
\* has created is cancelled
C20_EveryScopeCancelled ==
  CycleLeft => \A c \in 1..created : c \in cancelled

====
